---- MODULE Spec2Model ----
(***************************************************************************)
(* Govardovskii (2000) visual pigment template (govardovskii_template) and *)
(* the matplotlib renderer built on it (plot_visual_pigments).             *)
(*                                                                         *)
(* Arithmetic.  numpy evaluates the template in float64.  The model        *)
(* evaluates the same expressions, in the same order, in decimal fixed     *)
(* point: a real v is the integer v * SCALE ("fx").  np.exp is ExpFx, a    *)
(* table of e^k times a Taylor polynomial on [0,1).  Where float64 leaves  *)
(* the finite range the model follows float64, not the fixed point: an     *)
(* exponent above ExpOverflow gives +inf (and 1/inf = 0.0), one below      *)
(* -ExpUnderflow gives 0.0, and 0.0/0.0 is NaN.  Inputs whose combined     *)
(* curve is positive in float64 but below 1/SCALE everywhere cannot be     *)
(* told from zero here; InPrecision leaves them out of the input sets.     *)
(***************************************************************************)
EXTENDS Integers, Sequences, FiniteSets, TLC

VARIABLES
    last,      \* the entry point the latest call ran, or the one Init chose
    args,      \* inputs of the latest govardovskii_template call
    ret,       \* its outcome: the returned pair or the exception raised
    pargs,     \* inputs of the latest plot_visual_pigments call
    plotted,   \* its outcome, and the number of figures when it began
    canvas,    \* pyplot's process-wide state: the figures, newest last
    seen,      \* <<args, ret>> of every govardovskii_template call so far
    repeat     \* whether the latest template call's inputs had been seen

vars == <<last, args, ret, pargs, plotted, canvas, seen, repeat>>

-----------------------------------------------------------------------------
(* Bounds of the model. *)

\* Longest wavelength array handed to govardovskii_template directly.
MaxLen == 2

\* Longest lambda_maxs / A1_proportions list handed to plot_visual_pigments.
MaxSpecs == 2

\* Samples np.linspace produces in the model (1000 in the code).
NumSamples == 3

\* Figures the canvas may hold before the model stops calling plt.figure.
MaxFigures == 2

-----------------------------------------------------------------------------
(* float64 arithmetic in fixed point. *)

\* One unit of the fixed point is 1/SCALE.
SCALE == 10000

\* np.exp(t) is +inf in float64 for t > 709.7827 (fx).
ExpOverflow == 7097827

\* np.exp(-t) is 0.0 in float64 for t > 745.1332 (fx).
ExpUnderflow == 7451332

Abs(a) == IF a < 0 THEN -a ELSE a

\* a / b rounded down, for either sign of b; b # 0.
Div(a, b) == IF b > 0 THEN a \div b ELSE (-a) \div (-b)

\* c * d for a coefficient c in hundredths and d in fx; the result is fx.
MulCoef(c, d) == (d \div 100) * c + ((d % 100) * c) \div 100

Clamp(t, lo, hi) == IF t < lo THEN lo ELSE IF t > hi THEN hi ELSE t

\* e^k * 1000 for k = 0..10, and e^(-k) * 100000 for k = 1..10.
EPos == <<1000, 2718, 7389, 20086, 54598, 148413, 403429, 1096633,
          2980958, 8103084, 22026466>>
ENeg == <<36788, 13534, 4979, 1832, 674, 248, 91, 34, 12, 5>>

\* e^r for r in [0, SCALE): the Taylor polynomial of degree 7, by Horner.
ExpFrac(r) ==
    LET h7 == SCALE + r \div 7
        h6 == SCALE + (r * h7) \div (6 * SCALE)
        h5 == SCALE + (r * h6) \div (5 * SCALE)
        h4 == SCALE + (r * h5) \div (4 * SCALE)
        h3 == SCALE + (r * h4) \div (3 * SCALE)
        h2 == SCALE + (r * h3) \div (2 * SCALE)
    IN  SCALE + (r * h2) \div SCALE

\* np.exp on fx: exact to about 1/SCALE between e^-10 and e^10, and held
\* at those ends outside (1/(e^10 + ...) is already below 1/SCALE).
ExpFx(t) ==
    LET c  == Clamp(t, -10 * SCALE, 10 * SCALE)
        k  == c \div SCALE
        er == ExpFrac(c - k * SCALE)
    IN  IF k >= 0
        THEN (EPos[k + 1] \div 1000) * er + ((EPos[k + 1] % 1000) * er) \div 1000
        ELSE (ENeg[-k] * er) \div 100000

\* np.exp(t) overflows to +inf.
ExpIsInf(t) == t > ExpOverflow

-----------------------------------------------------------------------------
(* govardovskii_template, one wavelength at a time.  w and lambda_max are  *)
(* whole nanometres; w # 0 (the input sets hold no zero wavelength).       *)

\* x = lambda_max / wavelengths
XRatio(w, lambda_max) == Div(lambda_max * SCALE, w)

\* a1 = 0.8795 + 0.0459 * exp(-(lambda_max - 300)^2 / 11940)
A1Param(lambda_max) ==
    LET d == lambda_max - 300
    IN  8795 + (459 * ExpFx(-((d * d * 1000) \div 1194))) \div SCALE

\* lambda_beta_A1 and beta_bandwidth_A1, in thousandths of a nanometre.
lambda_beta_A1(lambda_max) == 189000 + 315 * lambda_max
beta_bandwidth_A1(lambda_max) == -40500 + 195 * lambda_max

\* The three exponents of alpha_A1's denominator.
AlphaArgsA1(w, lambda_max) ==
    LET x == XRatio(w, lambda_max)
    IN  << MulCoef(6970, A1Param(lambda_max) - x),
           MulCoef(2800, 9220 - x),
           MulCoef(-1490, 11040 - x) >>

\* 1 / (exp(t1) + exp(t2) + exp(t3) + c); 1/inf = 0.0 when an exp overflows.
AlphaBand(t, c) ==
    IF ExpIsInf(t[1]) \/ ExpIsInf(t[2]) \/ ExpIsInf(t[3])
    THEN 0
    ELSE (SCALE * SCALE) \div (ExpFx(t[1]) + ExpFx(t[2]) + ExpFx(t[3]) + c)

alpha_A1(w, lambda_max) == AlphaBand(AlphaArgsA1(w, lambda_max), 6740)

\* ((wavelengths - lambda_beta) / beta_bandwidth)^2 in fx; lambda_beta and
\* beta_bandwidth in thousandths.  A ratio beyond 40 squares past
\* ExpUnderflow and is held just above it.
BetaExponent(w, lambda_beta, beta_bandwidth) ==
    LET q == Div((w * 1000 - lambda_beta) * 1000, beta_bandwidth)
    IN  IF Abs(q) > 40 * 1000 THEN ExpUnderflow + 1 ELSE (q * q) \div 100

\* 0.26 * exp(-((wavelengths - lambda_beta) / beta_bandwidth)^2)
BetaBand(w, lambda_beta, beta_bandwidth) ==
    LET e == BetaExponent(w, lambda_beta, beta_bandwidth)
    IN  IF e > ExpUnderflow THEN 0 ELSE (2600 * ExpFx(-e)) \div SCALE

beta_A1(w, lambda_max) ==
    BetaBand(w, lambda_beta_A1(lambda_max), beta_bandwidth_A1(lambda_max))

sensitivity_A1(w, lambda_max) == alpha_A1(w, lambda_max) + beta_A1(w, lambda_max)

\* a2 = 0.875 + 0.0268 * exp((lambda_max - 665) / 40.7)
A2Param(lambda_max) ==
    8750 + (268 * ExpFx(((lambda_max - 665) * 100000) \div 407)) \div SCALE

\* A2_peak = 62.7 + 1.834 * exp((lambda_max - 625) / 54.2)
A2_peak(lambda_max) ==
    627000 + (1834 * ExpFx(((lambda_max - 625) * 100000) \div 542)) \div 1000

lambda_beta_A2(lambda_max) == 216700 + 287 * lambda_max
beta_bandwidth_A2(lambda_max) ==
    317000 - 1149 * lambda_max + (124 * lambda_max * lambda_max) \div 100

AlphaArgsA2(w, lambda_max) ==
    LET x == XRatio(w, lambda_max)
    IN  << MulCoef(A2_peak(lambda_max) \div 100, A2Param(lambda_max) - x),
           MulCoef(2085, 9101 - x),
           MulCoef(-1037, 11123 - x) >>

alpha_A2(w, lambda_max) == AlphaBand(AlphaArgsA2(w, lambda_max), 5343)

beta_A2(w, lambda_max) ==
    BetaBand(w, lambda_beta_A2(lambda_max), beta_bandwidth_A2(lambda_max))

sensitivity_A2(w, lambda_max) == alpha_A2(w, lambda_max) + beta_A2(w, lambda_max)

\* Variant: A1_proportion // 100, the weight cut to a whole number.
A1_weight_floor(A1_proportion) == (A1_proportion \div 100) * 100

\* Variant: the two weights exchanged.
A1_weight_complement(A1_proportion) == 100 - A1_proportion

\* A1_weight = A1_proportion / 100 and A2_weight = 1 - A1_weight, in hundredths.
A1_weight(A1_proportion) == A1_proportion
A2_weight(A1_proportion) == 100 - A1_weight(A1_proportion)

\* A1_weight * sensitivity_A1 + A2_weight * sensitivity_A2 at one wavelength.
Blend(w, lambda_max, A1_proportion) ==
    (A1_weight(A1_proportion) * sensitivity_A1(w, lambda_max)
       + A2_weight(A1_proportion) * sensitivity_A2(w, lambda_max)) \div 100


-----------------------------------------------------------------------------
(* Python values.  lambda_max is a number or None; a float64 result is     *)
(* finite (val in fx), NaN, or an infinity.                                *)

Num(v) == [type |-> "int", val |-> v]
None == [type |-> "NoneType", val |-> 0]

Finite(v) == [cls |-> "finite", val |-> v]
NaN == [cls |-> "nan", val |-> 0]
Infinity(positive) == [cls |-> IF positive THEN "inf" ELSE "-inf", val |-> 0]

\* t / m in float64: 0.0/0.0 is NaN and t/0.0 an infinity (numpy warns and
\* goes on).
Divide(t, m) ==
    IF m # 0 THEN Finite(Div(t * SCALE, m))
    ELSE IF t = 0 THEN NaN
    ELSE Infinity(t > 0)

RECURSIVE ArrayMax(_)
\* np.max over a non-empty array of finite values.
ArrayMax(a) ==
    IF Len(a) = 1 THEN a[1]
    ELSE LET m == ArrayMax(Tail(a))
         IN  IF a[1] > m THEN a[1] ELSE m

-----------------------------------------------------------------------------
(* govardovskii_template on an array. *)

\* Variant: every element computed from the first wavelength.
total_from_first(wavelengths, lambda_max, A1_proportion) ==
    [i \in 1..Len(wavelengths) |->
        Blend(wavelengths[1], lambda_max, A1_proportion)]

\* total_sensitivity, elementwise over wavelengths.
total_sensitivity(wavelengths, lambda_max, A1_proportion) ==
    [i \in 1..Len(wavelengths) |->
        Blend(wavelengths[i], lambda_max, A1_proportion)]

\* Variant: divided by the first element instead of the maximum.
normalized_by_first(total) ==
    [i \in 1..Len(total) |-> Divide(total[i], total[1])]

\* normalized_sensitivity = total_sensitivity / np.max(total_sensitivity)
normalized_sensitivity(total) ==
    [i \in 1..Len(total) |-> Divide(total[i], ArrayMax(total))]

Raise(exception) ==
    [status |-> exception, wavelengths |-> << >>, sensitivity |-> << >>]

\* Variant: an empty array is returned as an empty curve.
govardovskii_template_empty_ok(wavelengths, lambda_max, A1_proportion) ==
    IF lambda_max.type # "int" THEN Raise("TypeError")
    ELSE IF Len(wavelengths) = 0
    THEN [status |-> "returned", wavelengths |-> << >>, sensitivity |-> << >>]
    ELSE [status      |-> "returned",
          wavelengths |-> wavelengths,
          sensitivity |-> normalized_sensitivity(
              total_sensitivity(wavelengths, lambda_max.val, A1_proportion))]

\* Variant: the last returned pair is kept and handed out again whenever
\* the pigment is the same, whatever the wavelengths.
govardovskii_template_cached(wavelengths, lambda_max, A1_proportion) ==
    IF lambda_max.type # "int" THEN Raise("TypeError")
    ELSE IF /\ ret.status = "returned"
            /\ args.lambda_max = lambda_max
            /\ args.A1_proportion = A1_proportion
    THEN ret
    ELSE IF Len(wavelengths) = 0 THEN Raise("ValueError")
    ELSE [status      |-> "returned",
          wavelengths |-> wavelengths,
          sensitivity |-> normalized_sensitivity(
              total_sensitivity(wavelengths, lambda_max.val, A1_proportion))]

\* The call's outcome: the returned pair, or the exception it raises.
\* A None lambda_max is a TypeError (None / ndarray on line 21, None - 300
\* on line 24); np.max of an empty array is a ValueError (line 59).
govardovskii_template(wavelengths, lambda_max, A1_proportion) ==
    IF lambda_max.type # "int" THEN Raise("TypeError")
    ELSE IF Len(wavelengths) = 0 THEN Raise("ValueError")
    ELSE [status      |-> "returned",
          wavelengths |-> wavelengths,
          sensitivity |-> normalized_sensitivity(
              total_sensitivity(wavelengths, lambda_max.val, A1_proportion))]

-----------------------------------------------------------------------------
(* Where float64 produces an exact 0.0. *)

AlphaIsZero(t) == ExpIsInf(t[1]) \/ ExpIsInf(t[2]) \/ ExpIsInf(t[3])

S1IsZero(w, lambda_max) ==
    /\ AlphaIsZero(AlphaArgsA1(w, lambda_max))
    /\ BetaExponent(w, lambda_beta_A1(lambda_max),
                    beta_bandwidth_A1(lambda_max)) > ExpUnderflow

S2IsZero(w, lambda_max) ==
    /\ AlphaIsZero(AlphaArgsA2(w, lambda_max))
    /\ BetaExponent(w, lambda_beta_A2(lambda_max),
                    beta_bandwidth_A2(lambda_max)) > ExpUnderflow

BlendIsZero(w, lambda_max, A1_proportion) ==
    /\ A1_weight(A1_proportion) = 0 \/ S1IsZero(w, lambda_max)
    /\ A2_weight(A1_proportion) = 0 \/ S2IsZero(w, lambda_max)

\* The fixed point tells this call's normalization divisor from zero as
\* float64 does: a zero maximum in fx is an exact 0.0 in float64.
InPrecision(wavelengths, lambda_max, A1_proportion) ==
    \/ lambda_max.type # "int"
    \/ Len(wavelengths) = 0
    \/ LET total == total_sensitivity(wavelengths, lambda_max.val, A1_proportion)
       IN  ArrayMax(total) = 0 =>
             \A i \in 1..Len(wavelengths) :
                total[i] = 0 =>
                   BlendIsZero(wavelengths[i], lambda_max.val, A1_proportion)

-----------------------------------------------------------------------------
(* Inputs. *)

\* Wavelengths (nm) the arrays are built from.
Wavelengths == {1, 310, 420, 500, 570, 580}

\* The array of the documented example call.
ExampleGrid == <<400, 500, 600>>

SeqsUpTo(S, n) == UNION {[1..k -> S] : k \in 0..n}

SampleSets == SeqsUpTo(Wavelengths, MaxLen) \cup {ExampleGrid}

\* lambda_max arguments: a non-positive one, three positive ones, and None.
LambdaArgs == {Num(0), Num(210), Num(500), Num(650), None}

\* A1_proportion arguments; 150 lies outside [0,100].
Proportions == {0, 50, 100, 150}

Calls ==
    {c \in [wavelengths : SampleSets, lambda_max : LambdaArgs,
            A1_proportion : Proportions] :
        InPrecision(c.wavelengths, c.lambda_max, c.A1_proportion)}

NoReturn == Raise("pending")

-----------------------------------------------------------------------------
(* plot_visual_pigments. *)

\* np.linspace(lo, hi, n), n >= 2, kept to whole nanometres.
Linspace(lo, hi, n) == [i \in 1..n |-> lo + ((i - 1) * (hi - lo)) \div (n - 1)]

\* The A1_proportions argument: left out (None), or a list.
Omitted == [given |-> FALSE, list |-> << >>]
Given(list) == [given |-> TRUE, list |-> list]

\* Variant: [100], not repeated len(lambda_maxs) times.
DefaultProportions_single(lambda_maxs) == <<100>>

\* if A1_proportions is None: A1_proportions = [100] * len(lambda_maxs)
DefaultProportions(lambda_maxs) == [k \in 1..Len(lambda_maxs) |-> 100]

Min(a, b) == IF a < b THEN a ELSE b

\* zip(lambda_maxs, A1_proportions): pairs up to the shorter list.
Zip(lambda_maxs, A1_proportions) ==
    [k \in 1..Min(Len(lambda_maxs), Len(A1_proportions)) |->
        [lambda_max |-> lambda_maxs[k], A1_prop |-> A1_proportions[k]]]

\* plt.figure(figsize=(10, 6)): a new, empty current figure.
NewFigure ==
    [lines |-> << >>, xlabel |-> "", ylabel |-> "", title |-> "",
     grid |-> FALSE, legend |-> FALSE, ylim |-> << >>]

\* plt.plot(wavelengths, sensitivity, label=f'λmax={lambda_max}nm, A1={A1_prop}%')
Line(wavelengths, sensitivity, pair) ==
    [x |-> wavelengths, y |-> sensitivity,
     label |-> <<pair.lambda_max, pair.A1_prop>>]

\* Lines 89-94: axis labels, title (title or the default), grid, legend, ylim.
Decorated(figure, title) ==
    [figure EXCEPT !.xlabel = "Wavelength (nm)",
                   !.ylabel = "Normalized Sensitivity",
                   !.title  = IF title = "" THEN "Visual Pigment Templates"
                              ELSE title,
                   !.grid   = TRUE,
                   !.legend = TRUE,
                   !.ylim   = <<0, 11 * (SCALE \div 10)>>]

\* The figure the call leaves on the canvas and how the call ends.  The
\* loop evaluates and draws pair by pair; the first template call that
\* raises ends the call there, the lines before it drawn and nothing after.
PlotOutcome(p) ==
    LET wavelengths == Linspace(p.wavelength_range[1], p.wavelength_range[2],
                                NumSamples)
        A1s   == IF p.A1_proportions.given THEN p.A1_proportions.list
                 ELSE DefaultProportions(p.lambda_maxs)
        pairs == Zip(p.lambda_maxs, A1s)
        out   == [k \in 1..Len(pairs) |->
                     govardovskii_template(wavelengths, pairs[k].lambda_max,
                                           pairs[k].A1_prop)]
        bad   == {k \in 1..Len(pairs) : out[k].status # "returned"}
        stop  == IF bad = {} THEN Len(pairs) + 1
                 ELSE CHOOSE k \in bad : \A j \in bad : k <= j
        drawn == [NewFigure EXCEPT !.lines =
                     [k \in 1..(stop - 1) |->
                         Line(wavelengths, out[k].sensitivity, pairs[k])]]
    IN  IF bad = {}
        THEN [status |-> "returned", figure |-> Decorated(drawn, p.title)]
        ELSE [status |-> out[stop].status, figure |-> drawn]

\* Every template call the plot makes is one the fixed point resolves.
PlotInPrecision(p) ==
    LET wavelengths == Linspace(p.wavelength_range[1], p.wavelength_range[2],
                                NumSamples)
        A1s   == IF p.A1_proportions.given THEN p.A1_proportions.list
                 ELSE DefaultProportions(p.lambda_maxs)
        pairs == Zip(p.lambda_maxs, A1s)
    IN  \A k \in 1..Len(pairs) :
            InPrecision(wavelengths, pairs[k].lambda_max, pairs[k].A1_prop)

\* Plot inputs: the example's range, lists of a valid pigment and of None,
\* A1 lists of any length up to MaxSpecs or none, a title or none ("").
PlotLambdas == {Num(500), None}
PlotProportions == {0, 100}
Titles == {"", "Govardovskii Template: A1/A2 Chromophore Mixing"}

PlotCalls ==
    {p \in [wavelength_range : {<<300, 800>>},
            lambda_maxs      : SeqsUpTo(PlotLambdas, MaxSpecs),
            A1_proportions   : {Omitted} \cup
                               {Given(l) : l \in SeqsUpTo(PlotProportions, MaxSpecs)},
            title            : Titles] :
        PlotInPrecision(p)}

NotPlotted == [status |-> "pending", before |-> 0]

-----------------------------------------------------------------------------
(* The two entry points as actions. *)

\* govardovskii_template(c.wavelengths, c.lambda_max, c.A1_proportion)
Evaluate(c) ==
    /\ last' = "govardovskii_template"
    /\ args' = c
    /\ ret' = govardovskii_template(c.wavelengths, c.lambda_max, c.A1_proportion)
    /\ seen' = seen \cup {<<args', ret'>>}
    /\ repeat' = (\E e \in seen : e[1] = c)
    /\ UNCHANGED <<pargs, plotted, canvas>>

\* plot_visual_pigments(p.wavelength_range, p.lambda_maxs, p.A1_proportions,
\* p.title): plt.figure() and what the loop and the decoration add to it.
Plot(p) ==
    /\ last' = "plot_visual_pigments"
    /\ pargs' = p
    /\ canvas' = Append(canvas, PlotOutcome(p).figure)
    /\ plotted' = [status |-> PlotOutcome(p).status, before |-> Len(canvas)]
    /\ UNCHANGED <<args, ret, seen, repeat>>

-----------------------------------------------------------------------------
(* Spec: one call of either entry point, on inputs drawn by Init, in a     *)
(* fresh process (an empty canvas).                                        *)

\* What args and pargs hold while their entry point has not been called.
NoArgs == [wavelengths |-> << >>, lambda_max |-> None, A1_proportion |-> 100]
NoPlotArgs == [wavelength_range |-> <<300, 800>>, lambda_maxs |-> << >>,
               A1_proportions |-> Omitted, title |-> ""]

Init ==
    /\ last \in {"govardovskii_template", "plot_visual_pigments"}
    /\ IF last = "govardovskii_template"
       THEN args \in Calls /\ pargs = NoPlotArgs
       ELSE args = NoArgs /\ pargs \in PlotCalls
    /\ ret = NoReturn
    /\ plotted = NotPlotted
    /\ canvas = << >>
    /\ seen = {}
    /\ repeat = FALSE

CallTemplate ==
    /\ last = "govardovskii_template"
    /\ ret = NoReturn
    /\ Evaluate(args)

CallPlot ==
    /\ last = "plot_visual_pigments"
    /\ plotted = NotPlotted
    /\ Plot(pargs)

Next == CallTemplate \/ CallPlot

Spec == Init /\ [][Next]_vars

-----------------------------------------------------------------------------
(* Session: any interleaving of calls of the two entry points in one       *)
(* process, over a small alphabet of inputs.                               *)

SessionCalls ==
    [wavelengths : {<< >>, ExampleGrid}, lambda_max : {Num(500), None},
     A1_proportion : {100}]

SessionPlots ==
    [wavelength_range : {<<300, 800>>},
     lambda_maxs      : {<<Num(500)>>, <<Num(500), None>>},
     A1_proportions   : {Omitted, Given(<<0>>)},
     title            : {""}]

SessionInit ==
    /\ last = "none"
    /\ args = NoArgs
    /\ ret = NoReturn
    /\ pargs = NoPlotArgs
    /\ plotted = NotPlotted
    /\ canvas = << >>
    /\ seen = {}
    /\ repeat = FALSE

SessionTemplate == \E c \in SessionCalls : Evaluate(c)

SessionPlot ==
    /\ Len(canvas) < MaxFigures
    /\ \E p \in SessionPlots : Plot(p)

SessionNext == SessionTemplate \/ SessionPlot

Session == SessionInit /\ [][SessionNext]_vars

-----------------------------------------------------------------------------
(* Properties of a govardovskii_template call. *)

Called == last = "govardovskii_template" /\ ret # NoReturn
Returned == ret.status = "returned"
NumericLambda == args.lambda_max.type = "int"
ValidLambda == NumericLambda /\ args.lambda_max.val > 0
ValidProportion == args.A1_proportion \in 0..100

\* The call's pre-normalization curve; args hold a numeric lambda_max.
Total == total_sensitivity(args.wavelengths, args.lambda_max.val,
                           args.A1_proportion)

PositiveMaximum ==
    /\ NumericLambda
    /\ Len(args.wavelengths) > 0
    /\ ArrayMax(Total) > 0

\* C1: with a non-empty W, lambda_max > 0, p in [0,100] and a positive
\* maximum of the combined curve, the returned curve has an element equal
\* to 1.0 and every element is a finite value <= 1.0.
C1_MaxIsOne ==
    (Called /\ ValidLambda /\ ValidProportion /\ PositiveMaximum) =>
        /\ Returned
        /\ \E i \in 1..Len(ret.sensitivity) : ret.sensitivity[i] = Finite(SCALE)
        /\ \A i \in 1..Len(ret.sensitivity) :
              /\ ret.sensitivity[i].cls = "finite"
              /\ ret.sensitivity[i].val <= SCALE

\* C1's case: a returned curve of two elements, one of them below 1.0.
C1_Witness ==
    /\ Called /\ ValidLambda /\ ValidProportion /\ PositiveMaximum
    /\ Len(ret.sensitivity) = 2
    /\ \E i \in 1..2 : ret.sensitivity[i].val < SCALE

\* What C2 says of a call that returned: the input array comes back as it
\* was, and the i-th value is the blend at the i-th wavelength over the
\* shared divisor.
PairFromInput ==
    /\ Returned
    /\ ret.wavelengths = args.wavelengths
    /\ Len(ret.sensitivity) = Len(args.wavelengths)
    /\ \A i \in 1..Len(args.wavelengths) :
          ret.sensitivity[i] =
              Divide(Blend(args.wavelengths[i], args.lambda_max.val,
                           args.A1_proportion),
                     ArrayMax(Total))

\* C2 as claimed: for every W, lambda_max > 0 and p in [0,100] the call
\* returns the pair (W, curve) with one value per wavelength.
C2_Original ==
    (Called /\ ValidLambda /\ ValidProportion) => PairFromInput

\* C2 as amended: the same for every non-empty W (an empty W raises).
C2_PairForNonEmpty ==
    (Called /\ ValidLambda /\ ValidProportion /\ Len(args.wavelengths) > 0)
        => PairFromInput

\* C2's case: a returned pair over two different wavelengths.
C2_Witness ==
    /\ Called /\ ValidLambda /\ ValidProportion /\ Returned
    /\ Len(args.wavelengths) = 2
    /\ args.wavelengths[1] # args.wavelengths[2]
    /\ ret.sensitivity[1] # ret.sensitivity[2]

\* C3: a call whose lambda_max is non-positive or whose A1 proportion lies
\* outside [0,100] is rejected and returns no curve.
C3_RejectsInvalid ==
    (Called /\ NumericLambda /\ (~ValidLambda \/ ~ValidProportion))
        => ~Returned

\* C4: a call with an empty wavelength array ends in an exception and
\* returns no curve.
C4_EmptyRaises ==
    (Called /\ Len(args.wavelengths) = 0) =>
        /\ ret.status \in {"ValueError", "TypeError"}
        /\ ret.sensitivity = << >>

\* C4's case: the empty array with a valid pigment, ended in ValueError.
C4_Witness ==
    /\ Called /\ ValidLambda /\ ValidProportion
    /\ Len(args.wavelengths) = 0
    /\ ret.status = "ValueError"

\* C5: when the maximum of the combined curve is zero the call raises and
\* returns no curve.
C5_DegenerateRaises ==
    (Called /\ ValidLambda /\ ValidProportion
       /\ Len(args.wavelengths) > 0 /\ ArrayMax(Total) = 0)
        => ~Returned

\* The curve this W and lambda_max return at A1 proportion p.
CurveAt(p) ==
    govardovskii_template(args.wavelengths, args.lambda_max, p).sensitivity

\* Agreement to within a hundredth of the curve's full scale.
Tolerance == SCALE \div 100

\* C8 as claimed: with w = p/100, w*curve(100) + (1-w)*curve(0) reproduces
\* the returned curve(p), element by element.
C8_Original ==
    (Called /\ ValidLambda /\ ValidProportion /\ PositiveMaximum) =>
        \A i \in 1..Len(args.wavelengths) :
            (CurveAt(100)[i].cls = "finite" /\ CurveAt(0)[i].cls = "finite") =>
                Abs((args.A1_proportion * CurveAt(100)[i].val
                       + (100 - args.A1_proportion) * CurveAt(0)[i].val) \div 100
                    - ret.sensitivity[i].val) <= Tolerance

\* The pre-normalization curve of this W and lambda_max at A1 proportion p.
TotalAt(p) == total_sensitivity(args.wavelengths, args.lambda_max.val, p)

\* C8 as amended: the convex combination holds before normalization:
\* w*total(100) + (1-w)*total(0) is total(p), and the returned curve is that
\* combination over its own maximum.
C8_BlendBeforeNormalize ==
    (Called /\ ValidLambda /\ ValidProportion /\ Len(args.wavelengths) > 0) =>
        LET mix == [i \in 1..Len(args.wavelengths) |->
                       (args.A1_proportion * TotalAt(100)[i]
                          + (100 - args.A1_proportion) * TotalAt(0)[i]) \div 100]
        IN  /\ Returned
            /\ \A i \in 1..Len(args.wavelengths) :
                  ret.sensitivity[i] = Divide(mix[i], ArrayMax(mix))

\* C8's case: a true mixture whose two pure templates differ on the array.
C8_Witness ==
    /\ Called /\ ValidLambda /\ Returned
    /\ args.A1_proportion = 50
    /\ Len(args.wavelengths) = 2
    /\ TotalAt(100) # TotalAt(0)
    /\ ArrayMax(Total) > 0

InVisibleRange == NumericLambda /\ args.lambda_max.val > 300
                                /\ args.lambda_max.val < 800

Nearest(i) ==
    \A j \in 1..Len(args.wavelengths) :
        Abs(args.wavelengths[i] - args.lambda_max.val)
            <= Abs(args.wavelengths[j] - args.lambda_max.val)

\* C9 as claimed: for lambda_max in (300,800) and p = 100 every element
\* equal to 1.0 sits at the wavelength of W nearest lambda_max.
C9_Original ==
    (Called /\ InVisibleRange /\ args.A1_proportion = 100 /\ PositiveMaximum) =>
        \A i \in 1..Len(args.wavelengths) :
            ret.sensitivity[i] = Finite(SCALE) => Nearest(i)

\* C9 as amended: for lambda_max in (300,800) and p = 100 the elements equal
\* to 1.0 are those where the A1 template is largest over W, and the
\* example call ([400,500,600], 500, 100) returns three values with 1.0 at
\* 500.
C9_PeakWhereA1Largest ==
    (Called /\ InVisibleRange /\ args.A1_proportion = 100 /\ PositiveMaximum) =>
        /\ Returned
        /\ \A i \in 1..Len(args.wavelengths) :
              ret.sensitivity[i] = Finite(SCALE) <=>
                 \A j \in 1..Len(args.wavelengths) :
                    sensitivity_A1(args.wavelengths[j], args.lambda_max.val)
                       <= sensitivity_A1(args.wavelengths[i], args.lambda_max.val)
        /\ (args.wavelengths = ExampleGrid /\ args.lambda_max = Num(500)) =>
              /\ Len(ret.sensitivity) = 3
              /\ ret.sensitivity[2] = Finite(SCALE)
              /\ ret.sensitivity[1].val < SCALE
              /\ ret.sensitivity[3].val < SCALE

\* C9's case: the example call has returned.
C9_Witness ==
    /\ Called /\ Returned
    /\ args.wavelengths = ExampleGrid
    /\ args.lambda_max = Num(500)
    /\ args.A1_proportion = 100

-----------------------------------------------------------------------------
(* Properties of a plot_visual_pigments call. *)

PlotEnded == last = "plot_visual_pigments" /\ plotted.status # "pending"
PlotReturned == PlotEnded /\ plotted.status = "returned"
PlotRaised == PlotEnded /\ plotted.status # "returned"

\* The figure the latest plot call created.
NewestFigure == canvas[Len(canvas)]

PlotGrid == Linspace(pargs.wavelength_range[1], pargs.wavelength_range[2],
                     NumSamples)

\* Line k of the newest figure is the template at lambda_max and A1_prop.
DrawnWith(k, lambda_max, A1_prop) ==
    /\ NewestFigure.lines[k].label = <<lambda_max, A1_prop>>
    /\ NewestFigure.lines[k].x = PlotGrid
    /\ NewestFigure.lines[k].y =
          govardovskii_template(PlotGrid, lambda_max, A1_prop).sensitivity

C7_NoPartialRendering ==
    PlotRaised => Len(canvas) = plotted.before

-----------------------------------------------------------------------------
(* Properties of a session. *)

====
